---- MODULE Spec2Model ----
(***************************************************************************)
(* Model of the live synchronization core of web-fs-manager (server.js):   *)
(* the root switch handler (POST /api/set-project), the fs.watch callback, *)
(* the WebSocket connection handler and broadcastToClients, as they run on *)
(* the single-threaded event loop.  Every `await` of the source is a       *)
(* suspension point: the code between two awaits is one atomic action.     *)
(***************************************************************************)
EXTENDS Integers, Sequences, FiniteSets, TLC

\* ------------------------------------------------------------------ bounds
\* The stimuli of one behaviour: POST /api/set-project requests, raw fs.watch
\* events, FSWatcher errors, accepted WebSocket connections and client
\* messages, in any mix.
MaxOps == 3
\* The getDirectoryStructure calls whose results one behaviour records.
MaxBuilds == 2
\* How many symbolic links the resolution of one path follows before stat
\* fails with ELOOP.
SymlinkDepth == 2
\* The directory navigations the viewer issues in one behaviour.
MaxNavs == 3
\* How many requests the user makes on the selector page.
MaxClicks == 4
\* How many WebSockets the viewer creates in one behaviour.
MaxSockets == 7

\* ------------------------------------------------------- program constants
RECENT_CAP == 10    \* recentProjects.size > 10
OPEN == 1           \* client.readyState === 1
CLOSING == OPEN + 1  \* readyState of a socket whose close has begun
CLOSED == OPEN + 2   \* readyState after the 'close' event
maxReconnectAttempts == 5   \* the viewer's const maxReconnectAttempts

SwitchIds == 1..MaxOps
EventIds == 1..MaxOps
ClientIds == 1..MaxOps
MsgIds == 1..MaxOps

\* ------------------------------------------------------------- file system
\* A path is the sequence of its components below "/".
ProjDir == <<"proj">>
OtherDir == <<"other">>
\* Twelve more directories, named in the order RecentOrder: enough of them
\* to fill recentProjects beyond its capacity.
RecentOrder == <<"r01", "r02", "r03", "r04", "r05", "r06",
                 "r07", "r08", "r09", "r10", "r11", "r12">>
RecentDirs == {<<RecentOrder[i]>> : i \in DOMAIN RecentOrder}
DirPaths == {ProjDir, OtherDir} \cup RecentDirs
\* The entries readdir lists in a directory (every directory here holds the
\* same two: a file and node_modules).
Items == {"a.txt", "node_modules"}
FilePaths == {<<"proj", "a.txt">>}
\* What POST /api/set-project may carry in req.body.path.
ReqPaths == {ProjDir, OtherDir, <<"proj", ".">>, <<"missing">>, <<"proj", "a.txt">>}

\* path.resolve: normalises the "." segments away.
Resolve(p) == SelectSeq(p, LAMBDA c : c # ".")

\* Mutant of Stat: the isDirectory() check is missing.
StatExists(p) == IF p \in DirPaths \cup FilePaths THEN "dir" ELSE "ENOENT"

\* fs.stat: the kind of the entry, or the error it rejects with.
Stat(p) == IF p \in DirPaths THEN "dir" ELSE IF p \in FilePaths THEN "file" ELSE "ENOENT"

\* The longest common prefix of two paths.
RECURSIVE Common(_, _)
Common(a, b) ==
    IF Len(a) = 0 \/ Len(b) = 0 \/ Head(a) # Head(b) THEN <<>>
    ELSE <<Head(a)>> \o Common(Tail(a), Tail(b))

\* path.relative(from, to): one ".." for every component of from below the
\* common prefix, then the components of to below it.
Relative(from, to) ==
    LET n == Len(Common(from, to))
    IN [i \in 1..(Len(from) - n) |-> ".."] \o SubSeq(to, n + 1, Len(to))

\* path.parse(p).base
Base(p) == IF Len(p) = 0 THEN "" ELSE p[Len(p)]

\* A watch event's filename: a sequence of components, each a sequence of
\* text chunks; <<>> is the null filename fs.watch may report.
NoName == <<>>
PlainFile == << <<"a.txt">> >>
DepFile == << <<"node_modules">>, <<"x.js">> >>
Filenames == {NoName, PlainFile, DepFile}

\* More filenames: below .git, below a nested node_modules, and .gitignore,
\* whose name contains the text .git.
GitFile == << <<".git">>, <<"config">> >>
NestedDepFile == << <<"sub">>, <<"node_modules">>, <<"x.js">> >>
GitIgnoreFile == << <<".git", "ignore">> >>
WatchNames == Filenames \cup {GitFile, NestedDepFile, GitIgnoreFile}

\* String.prototype.includes on a filename.
Includes(f, pat) == \E i \in DOMAIN f : \E j \in DOMAIN f[i] : f[i][j] = pat

\* Mutant of WatchIgnored: only node_modules is tested for.
WatchIgnoredDepsOnly(f) == Includes(f, "node_modules")

\* The filter at the head of the watcher callback.
WatchIgnored(f) == Includes(f, "node_modules") \/ Includes(f, ".git")

\* ------------------------------------------------- content of the project
\* What one entry below /proj is: a regular file with its size, a
\* directory, a directory whose listing is refused ("locked"), an entry
\* that readdir lists but stat rejects ("vanished": removed mid-walk, or no
\* permission), an entry that is neither file nor directory ("fifo"), a
\* symbolic link to /proj itself ("link"), or nothing.
Entry(kind, size) == [kind |-> kind, size |-> size]
Nothing == Entry("none", 0)
Folder == Entry("dir", 0)

\* The paths below /proj an entry may be at.
TreePaths == {<<"a.txt">>, <<"sub">>, <<"sub", "b.txt">>, <<"sub", "node_modules">>,
              <<"node_modules">>, <<"node_modules", "x.js">>, <<".git">>, <<"loop">>}

\* The content of /proj with a.txt being a, sub being s and holding b and
\* (if n) a node_modules directory, with a node_modules directory holding
\* x.js if m, a .git directory if g and the link loop -> /proj if l.
Tree(a, s, b, n, m, g, l) ==
    LET inSub == s.kind \in {"dir", "locked"}
    IN [p \in TreePaths |->
          CASE p = <<"a.txt">> -> a
            [] p = <<"sub">> -> s
            [] p = <<"sub", "b.txt">> -> IF inSub THEN b ELSE Nothing
            [] p = <<"sub", "node_modules">> -> IF inSub /\ n THEN Folder ELSE Nothing
            [] p = <<"node_modules">> -> IF m THEN Folder ELSE Nothing
            [] p = <<"node_modules", "x.js">> -> IF m THEN Entry("file", 1) ELSE Nothing
            [] p = <<".git">> -> IF g THEN Folder ELSE Nothing
            [] p = <<"loop">> -> IF l THEN Entry("link", 0) ELSE Nothing]

FileEntries == {Entry("file", 0), Entry("file", 3)}
Trees ==
    {Tree(a, s, b, n, m, g, l) :
        a \in FileEntries \cup {Nothing, Entry("vanished", 0), Entry("fifo", 0)},
        s \in {Nothing, Folder, Entry("locked", 0), Entry("vanished", 0)},
        b \in {Nothing, Entry("file", 1)},
        n \in BOOLEAN, m \in BOOLEAN, g \in BOOLEAN, l \in BOOLEAN}

\* /proj holding a.txt and node_modules, as Items lists it.
PlainTree == Tree(Entry("file", 3), Nothing, Nothing, FALSE, TRUE, FALSE, FALSE)

\* ------------------------------------------------------------------- viewer
NavIds == 1..MaxNavs
\* The viewer's `let currentPath = '/'`.
RootPath == <<>>
\* One loadDirectories call: the path it fetches, the response on its way.
IdleNav == [pc |-> "idle", path |-> RootPath, status |-> 0, current |-> RootPath]

\* What the page shows before any script wrote to it (index.html 193-217):
\* an empty breadcrumb, the button "Select Current Directory", the text
\* "No project selected".
Blank == <<"">>
InitialLabel == <<"Current Directory">>
NoProject == <<"No project selected">>

\* showProjectSelector is not running; no selectProject call.
IdleOpener == [pc |-> "idle", nav |-> 0]
IdleSel == [pc |-> "idle", path |-> RootPath, outcome |-> "none"]

\* A WebSocket as `new WebSocket(url)` returns it; opened says whether its
\* onopen ran, sent how many getStructure requests went out on it.
NewSocket == [state |-> "connecting", opened |-> FALSE, sent |-> 0]

\* The launcher's children; the PID file when it does not exist, and when
\* it holds one line name:pid for each of names.
ChildNames == {"server", "vite"}
Absent == [exists |-> FALSE, lines |-> {}]
Saved(names) == [exists |-> TRUE, lines |-> names]

\* ------------------------------------------------------------------- state
VARIABLES
    projectRoot,     \* let projectRoot
    watcher,         \* let watcher: index into sessions, 0 for null
    sessions,        \* every FSWatcher created so far: [root, active]
    recentProjects,  \* the Set recentProjects, in insertion order
    fsver,           \* per directory: how often its visible content changed
    clients,         \* wss.clients
    readyState,      \* readyState of each socket
    inbox,           \* per client: the messages delivered to it, in order
    sw,              \* the set-project handlers, one per request
    cb,              \* the watcher callbacks, one per raw event
    conn,            \* the connection handlers, one per client
    epoch,           \* how many switches have assigned projectRoot
    ops,             \* how many stimuli there have been
    rq,              \* the 'message' handlers, one per client message
    picks,           \* the paths assigned to projectRoot so far, in order
    stats,           \* counts: reportable raw events, calls of broadcastToClients,
                     \* getStructure messages sent and heard
    tree,            \* the content of /proj, entry by entry
    built,           \* the getDirectoryStructure calls made and what they returned
    nav,             \* the viewer's loadDirectories calls, one per navigation
    currentPath,     \* the viewer's currentPath
    breadcrumb,      \* the path #path-breadcrumb shows
    selectLabel,     \* the path the label of #select-dir-btn quotes
    modalVisible,    \* whether #project-modal has the class visible
    currentProject,  \* the text of #current-project
    status,          \* the type of the last showStatus call
    opener,          \* the showProjectSelector call in progress, if any
    sel,             \* the viewer's selectProject calls, one per request
    ws,              \* the viewer's `let ws`: index into socks, 0 for null
    socks,           \* every WebSocket the viewer created
    timers,          \* pending setTimeout(connectWebSocket, reconnectDelay)
    reconnectAttempts, \* the viewer's reconnectAttempts
    lpc,             \* the launcher: where its top-level await chain stands
    processes,       \* the launcher's Map processes: the names it holds
    children,        \* the launcher's child processes, by name
    pidFile,         \* the file .process-ids: whether it exists, and its lines
    writes           \* the fs.writeFile calls of savePids not settled yet

\* The selector page, the viewer's connection, the launcher.
page == <<breadcrumb, selectLabel, modalVisible, currentProject, status, opener, sel>>
link == <<ws, socks, timers, reconnectAttempts>>
launcher == <<lpc, processes, children, pidFile, writes>>

vars == <<projectRoot, watcher, sessions, recentProjects, fsver, clients,
          readyState, inbox, sw, cb, conn, epoch, ops, rq, picks, stats,
          tree, built, nav, currentPath, page, link, launcher>>

\* What the server's handlers other than the tree walk never touch: the
\* project's content, the log of walks, the viewer's and the launcher's state.
aux == <<tree, built, nav, currentPath, page, link, launcher>>

\* index.html as loaded (lines 193-217) and before any selectProject call.
InitPage ==
    /\ breadcrumb = Blank
    /\ selectLabel = InitialLabel
    /\ modalVisible = FALSE
    /\ currentProject = NoProject
    /\ status = "none"
    /\ opener = IdleOpener
    /\ sel = [k \in SwitchIds |-> IdleSel]

\* The viewer's module has run: connectWebSocket() was called once.
InitLink ==
    /\ socks = <<NewSocket>>
    /\ ws = 1
    /\ timers = 0
    /\ reconnectAttempts = 0

\* The launcher run with no argument, no PID file left behind: start() is
\* at the readFile of stopAll's loadPids.
InitLauncher ==
    /\ lpc = [cmd |-> "start", at |-> "load"]
    /\ processes = {}
    /\ children = [n \in ChildNames |-> "none"]
    /\ pidFile = Absent
    /\ writes = <<>>

\* The viewer just loaded, apart from the project shown in tree.
InitView ==
    /\ built = <<>>
    /\ nav = [n \in NavIds |-> IdleNav]
    /\ currentPath = RootPath
    /\ InitPage
    /\ InitLink
    /\ InitLauncher

\* The project as Items has it, no walk logged, the viewer just loaded.
InitAux ==
    /\ tree = PlainTree
    /\ InitView

NoPath == <<>>
\* A handler's record: pc is the await it is suspended at; dir and from are
\* the argument of its pending getDirectoryStructure call and the version
\* of that directory when the call was made.
IdleSw == [pc |-> "idle", path |-> NoPath, dir |-> NoPath, from |-> 0,
           resp |-> "none", ep |-> 0]
IdleCb == [pc |-> "idle", sess |-> 0, wroot |-> NoPath, dir |-> NoPath, from |-> 0]
IdleConn == [pc |-> "idle", dir |-> NoPath, from |-> 0]
IdleRq == [pc |-> "idle", client |-> 0, dir |-> NoPath, from |-> 0]

Init ==
    /\ projectRoot = ProjDir
    /\ sessions = << [root |-> ProjDir, active |-> TRUE, failed |-> FALSE] >>
    /\ watcher = 1
    /\ recentProjects = <<>>
    /\ picks = <<>>
    /\ rq = [r \in MsgIds |-> IdleRq]
    /\ fsver = [d \in DirPaths |-> 0]
    /\ clients = {}
    /\ readyState = [c \in ClientIds |-> 0]
    /\ inbox = [c \in ClientIds |-> <<>>]
    /\ sw = [k \in SwitchIds |-> IdleSw]
    /\ cb = [e \in EventIds |-> IdleCb]
    /\ conn = [c \in ClientIds |-> IdleConn]
    /\ epoch = 0
    /\ ops = 0
    /\ stats = [events |-> 0, fileChange |-> 0, structure |-> 0, rebuilds |-> 0,
                calls |-> 0, asked |-> 0, served |-> 0]
    /\ InitAux

\* --------------------------------------------------------------- messages
\* A "structure" message.  dir and ver say which directory listing the
\* children were read from; root is the value of projectRoot when the
\* handler builds the message (name is parse(projectRoot).base).
\* ep is the number of root assignments before the send, own the number
\* after the sending handler's own assignment (0 if it made none); wroot is
\* the directory of the FSWatcher whose event made a callback send it.
\* rel is the value of projectRoot that relative(projectRoot, path) read
\* when the walk computed the path of the listed file.
StructureMsg(origin, own, wroot, dir, ver, rel) ==
    [type |-> "structure", origin |-> origin, file |-> NoName,
     dir |-> dir, ver |-> ver, root |-> projectRoot, name |-> Base(projectRoot),
     wroot |-> wroot, ep |-> epoch, own |-> own, rel |-> rel]

\* Mutant of FileChangeMsg: the message does not name the file.
FileChangeMsgUnnamed(s, f) ==
    [type |-> "fileChange", origin |-> "watch", file |-> NoName,
     dir |-> NoPath, ver |-> 0, root |-> projectRoot, name |-> "",
     wroot |-> sessions[s].root, ep |-> epoch, own |-> 0, rel |-> NoPath]

\* A "fileChange" message of watcher callback e.  wroot is the directory the
\* reporting FSWatcher observes, root the value of projectRoot at that time.
FileChangeMsg(s, f) ==
    [type |-> "fileChange", origin |-> "watch", file |-> f,
     dir |-> NoPath, ver |-> 0, root |-> projectRoot, name |-> "",
     wroot |-> sessions[s].root, ep |-> epoch, own |-> 0, rel |-> NoPath]

\* The "error" message the 'message' handler's catch sends.
ErrorMsg ==
    [type |-> "error", origin |-> "request", file |-> NoName,
     dir |-> NoPath, ver |-> 0, root |-> projectRoot, name |-> "",
     wroot |-> NoPath, ep |-> epoch, own |-> 0, rel |-> NoPath]

\* Mutant of Send: the message goes to every open socket of wss.clients.
SendToAll(ib, c, message) ==
    [o \in ClientIds |->
        IF o \in clients /\ readyState[o] = OPEN THEN Append(ib[o], message) ELSE ib[o]]

\* ws.send on one socket: the frame goes out only while the socket is open.
Send(ib, c, message) ==
    IF readyState[c] = OPEN THEN [ib EXCEPT ![c] = Append(@, message)] ELSE ib

\* Mutant of BroadcastToClients: the message overtakes what was sent before.
BroadcastToClientsFront(ib, message) ==
    [c \in ClientIds |->
        IF c \in clients /\ readyState[c] = OPEN THEN <<message>> \o ib[c] ELSE ib[c]]

\* broadcastToClients(message): every socket of wss.clients whose readyState
\* is OPEN is sent the message; the others are skipped.
BroadcastToClients(ib, message) ==
    [c \in ClientIds |->
        IF c \in clients /\ readyState[c] = OPEN THEN Append(ib[c], message) ELSE ib[c]]

Counted(st, type) == [st EXCEPT ![type] = @ + 1, !.calls = @ + 1]

\* ---------------------------------------------------------- recent projects
InSeq(q, x) == \E i \in DOMAIN q : q[i] = x

\* Mutant of RecentAdd: the size check is missing.
RecentAddUnbounded(q, p) == IF InSeq(q, p) THEN q ELSE Append(q, p)

\* recentProjects.add(p); if (size > 10) delete(Array.from(recentProjects)[0])
RecentAdd(q, p) ==
    LET added == IF InSeq(q, p) THEN q ELSE Append(q, p)
    IN IF Len(added) > RECENT_CAP THEN Tail(added) ELSE added

\* --------------------------------------------------------------- tree build
\* The versions of directory dir a getDirectoryStructure call made at
\* version from may return: readdir reads the listing at some moment between
\* the call and the moment the awaiting handler resumes.
Readable(dir, from) == from .. fsver[dir]

\* The values projectRoot may have when the walk of dir reads it in
\* relative(projectRoot, path): the walk is called with dir = projectRoot,
\* and a switch may assign projectRoot before the walk is over.
RelBases(dir) == {dir, projectRoot}

\* The node names getDirectoryStructure keeps: node_modules and .git are
\* skipped.
Kept == {item \in Items : item # "node_modules" /\ item # ".git"}

\* The `path` fields of the nodes of structure message m.
NodePaths(m) == {Relative(m.rel, Append(m.dir, item)) : item \in Kept}

\* ------------------------------------------------------------ root switching
\* The request arrives: resolve(path), then await stat(resolvedPath).
SwitchRequest(k, p) ==
    /\ ops < MaxOps
    /\ ops' = ops + 1
    /\ sw[k].pc = "idle"
    /\ \A j \in SwitchIds : j < k => sw[j].pc # "idle"
    /\ sw' = [sw EXCEPT ![k] = [@ EXCEPT !.pc = "stat", !.path = Resolve(p)]]
    /\ UNCHANGED <<projectRoot, watcher, sessions, recentProjects, fsver, clients,
                   readyState, inbox, cb, conn, epoch, stats, rq, picks, aux>>

\* What the handler answers with: pc done, the response, nothing pending.
Answered(r, resp) == [IdleSw EXCEPT !.pc = "done", !.path = r.path, !.resp = resp]

\* stat rejects, or the entry is no directory: the catch answers 500.
SwitchInvalid(k) ==
    /\ sw[k].pc = "stat"
    /\ Stat(sw[k].path) # "dir"
    /\ sw' = [sw EXCEPT ![k] =
                 Answered(@, IF Stat(sw[k].path) = "file" THEN "ENOTDIR" ELSE "ENOENT")]
    /\ UNCHANGED <<ops, projectRoot, watcher, sessions, recentProjects, fsver, clients,
                   readyState, inbox, cb, conn, epoch, stats, rq, picks, aux>>

\* stat resolved with a directory: projectRoot and recentProjects are
\* assigned, then the handler awaits writeFile.
SwitchAssign(k) ==
    /\ sw[k].pc = "stat"
    /\ Stat(sw[k].path) = "dir"
    /\ projectRoot' = sw[k].path
    /\ recentProjects' = RecentAdd(recentProjects, sw[k].path)
    /\ picks' = Append(picks, sw[k].path)
    /\ epoch' = epoch + 1
    /\ sw' = [sw EXCEPT ![k] = [@ EXCEPT !.pc = "write", !.ep = epoch + 1]]
    /\ UNCHANGED <<ops, watcher, sessions, fsver, clients, readyState, inbox, cb, conn,
                   stats, rq, aux>>

\* Mutant of CloseWatcher: the old watcher is left open.
CloseWatcherSkipped(ss, w) == ss

\* if (watcher) watcher.close()
CloseWatcher(ss, w) == IF w = 0 THEN ss ELSE [ss EXCEPT ![w].active = FALSE]

\* Mutant of SetupWatcher: the new watcher observes the directory of the
\* watcher it replaces.
SetupWatcherOnOldRoot(ss) ==
    Append(ss, [root |-> IF Len(ss) = 0 THEN projectRoot ELSE ss[Len(ss)].root,
                active |-> TRUE, failed |-> FALSE])

\* setupWatcher(): watcher = watch(projectRoot, ...)
SetupWatcher(ss) == Append(ss, [root |-> projectRoot, active |-> TRUE, failed |-> FALSE])

\* writeFile settled (its error is caught): the old watcher is closed and
\* setupWatcher() watches projectRoot; the handler then calls
\* getDirectoryStructure(projectRoot) and awaits it.
SwitchRestart(k) ==
    /\ sw[k].pc = "write"
    /\ sessions' = SetupWatcher(CloseWatcher(sessions, watcher))
    /\ watcher' = Len(sessions) + 1
    /\ sw' = [sw EXCEPT ![k] = [@ EXCEPT !.pc = "build", !.dir = projectRoot,
                                         !.from = fsver[projectRoot]]]
    /\ UNCHANGED <<ops, projectRoot, recentProjects, fsver, clients, readyState, inbox,
                   cb, conn, epoch, stats, rq, picks, aux>>

\* As SwitchRestart, but fs.watch throws (the directory is gone by now, or
\* the watch limit is reached): the old watcher is closed, no new one is
\* assigned and the outer catch answers 500.
SwitchWatchThrows(k) ==
    /\ sw[k].pc = "write"
    /\ sessions' = CloseWatcher(sessions, watcher)
    /\ sw' = [sw EXCEPT ![k] = Answered(@, "EWATCH")]
    /\ UNCHANGED <<ops, projectRoot, watcher, recentProjects, fsver, clients, readyState,
                   inbox, cb, conn, epoch, stats, rq, picks, aux>>

\* The tree walk is over: the structure is broadcast with the name of
\* projectRoot and the request is answered {success: true}.
SwitchBroadcast(k) ==
    /\ sw[k].pc = "build"
    /\ \E v \in Readable(sw[k].dir, sw[k].from), b \in RelBases(sw[k].dir) :
          inbox' = BroadcastToClients(inbox,
                       StructureMsg("switch", sw[k].ep, NoPath, sw[k].dir, v, b))
    /\ stats' = Counted(stats, "structure")
    /\ sw' = [sw EXCEPT ![k] = Answered(@, "ok")]
    /\ UNCHANGED <<ops, projectRoot, watcher, sessions, recentProjects, fsver, clients,
                   readyState, cb, conn, epoch, rq, picks, aux>>

\* ------------------------------------------------------------ change watcher
\* Whether a change below filename f is visible in a snapshot: the tree
\* builder skips the entries named node_modules or .git.
TreeVisible(f) ==
    ~ \E i \in DOMAIN f : f[i] = <<"node_modules">> \/ f[i] = <<".git">>

\* Mutant of CallbackReturns: the ignore test is inverted.
CallbackReturnsInverted(f) == f = NoName \/ ~ WatchIgnored(f)

\* The callback's early returns: no filename, or an ignored one.
CallbackReturns(f) == f = NoName \/ WatchIgnored(f)

\* A raw event that names a path outside node_modules and .git.
Reportable(f) == f # NoName /\ ~ Includes(f, "node_modules") /\ ~ Includes(f, ".git")

\* A raw event of the active FSWatcher s with filename f runs the callback
\* up to its first await: the early returns, else the fileChange broadcast
\* and the call getDirectoryStructure(projectRoot).
WatchEvent(e, s, f) ==
    /\ ops < MaxOps
    /\ ops' = ops + 1
    /\ cb[e].pc = "idle"
    /\ \A j \in EventIds : j < e => cb[j].pc # "idle"
    /\ sessions[s].active
    /\ fsver' = IF TreeVisible(f)
                THEN [fsver EXCEPT ![sessions[s].root] = @ + 1] ELSE fsver
    /\ IF CallbackReturns(f)
       THEN /\ cb' = [cb EXCEPT ![e] = [IdleCb EXCEPT !.pc = "done"]]
            /\ stats' = [stats EXCEPT !.events = IF Reportable(f) THEN @ + 1 ELSE @]
            /\ UNCHANGED inbox
       ELSE /\ inbox' = BroadcastToClients(inbox, FileChangeMsg(s, f))
            /\ stats' = [Counted(stats, "fileChange") EXCEPT
                             !.events = IF Reportable(f) THEN @ + 1 ELSE @]
            /\ cb' = [cb EXCEPT ![e] = [pc |-> "build", sess |-> s,
                                        wroot |-> sessions[s].root,
                                        dir |-> projectRoot,
                                        from |-> fsver'[projectRoot]]]
    /\ UNCHANGED <<projectRoot, watcher, sessions, recentProjects, clients,
                   readyState, sw, conn, epoch, rq, picks, aux>>

\* The walk of callback e is over: the structure is broadcast.  Nothing
\* here looks at whether the FSWatcher that reported the event is still open.
CallbackBroadcast(e) ==
    /\ cb[e].pc = "build"
    /\ \E v \in Readable(cb[e].dir, cb[e].from), b \in RelBases(cb[e].dir) :
          inbox' = BroadcastToClients(inbox,
                       StructureMsg("watch", 0, cb[e].wroot, cb[e].dir, v, b))
    /\ stats' = [Counted(stats, "structure") EXCEPT !.rebuilds = @ + 1]
    /\ cb' = [cb EXCEPT ![e] = [IdleCb EXCEPT !.pc = "done"]]
    /\ UNCHANGED <<ops, projectRoot, watcher, sessions, recentProjects, fsver, clients,
                   readyState, sw, conn, epoch, rq, picks, aux>>

\* The FSWatcher s emits 'error': Node has closed its handle by then, so it
\* reports nothing any more; the listener only writes to the console.
WatchError(s) ==
    /\ ops < MaxOps
    /\ ops' = ops + 1
    /\ sessions[s].active
    /\ sessions' = [sessions EXCEPT ![s].active = FALSE, ![s].failed = TRUE]
    /\ UNCHANGED <<projectRoot, watcher, recentProjects, fsver, clients, readyState,
                   inbox, sw, cb, conn, epoch, stats, rq, picks, aux>>

\* ------------------------------------------------------------------ clients
\* A socket is accepted: the server adds it to wss.clients, then the
\* 'connection' handler calls getDirectoryStructure(projectRoot) and awaits.
Connect(c) ==
    /\ ops < MaxOps
    /\ ops' = ops + 1
    /\ conn[c].pc = "idle"
    /\ \A j \in ClientIds : j < c => conn[j].pc # "idle"
    /\ clients' = clients \cup {c}
    /\ readyState' = [readyState EXCEPT ![c] = OPEN]
    /\ conn' = [conn EXCEPT ![c] = [pc |-> "build", dir |-> projectRoot,
                                    from |-> fsver[projectRoot]]]
    /\ UNCHANGED <<projectRoot, watcher, sessions, recentProjects, fsver, inbox,
                   sw, cb, epoch, stats, rq, picks, aux>>

\* The initial structure is sent to the new socket alone.
ConnectSend(c) ==
    /\ conn[c].pc = "build"
    /\ \E v \in Readable(conn[c].dir, conn[c].from), b \in RelBases(conn[c].dir) :
          inbox' = Send(inbox, c, StructureMsg("connect", 0, NoPath, conn[c].dir, v, b))
    /\ conn' = [conn EXCEPT ![c] = [IdleConn EXCEPT !.pc = "done"]]
    /\ UNCHANGED <<ops, projectRoot, watcher, sessions, recentProjects, fsver, clients,
                   readyState, sw, cb, epoch, stats, rq, picks, aux>>

\* What a client may send: the request, a JSON message of another type, and
\* text that is no JSON.
MsgData == {"getStructure", "ping", "garbage"}

\* JSON.parse(message).type, or the error JSON.parse throws.
ParsedType(d) == IF d = "garbage" THEN "SyntaxError" ELSE d

\* Open socket c delivers message d.  ws.on('message') is called only
\* after the connection handler has sent the initial structure: before
\* that the socket has no 'message' listener and the message is lost.
\* With the listener: text that does not parse is answered with an "error"
\* message, a getStructure calls getDirectoryStructure(projectRoot) and
\* awaits it, any other type is ignored.
ClientMessage(r, c, d) ==
    /\ ops < MaxOps
    /\ ops' = ops + 1
    /\ rq[r].pc = "idle"
    /\ \A j \in MsgIds : j < r => rq[j].pc # "idle"
    /\ c \in clients
    /\ readyState[c] = OPEN
    /\ LET heard == conn[c].pc = "done"
           asks == ParsedType(d) = "getStructure"
       IN /\ rq' = [rq EXCEPT ![r] =
                       IF heard /\ asks
                       THEN [pc |-> "build", client |-> c, dir |-> projectRoot,
                             from |-> fsver[projectRoot]]
                       ELSE [IdleRq EXCEPT !.pc = "done"]]
          /\ inbox' = IF heard /\ ParsedType(d) = "SyntaxError"
                      THEN Send(inbox, c, ErrorMsg) ELSE inbox
          /\ stats' = [stats EXCEPT !.asked = IF asks THEN @ + 1 ELSE @,
                                    !.served = IF heard /\ asks THEN @ + 1 ELSE @]
    /\ UNCHANGED <<projectRoot, watcher, sessions, recentProjects, fsver, clients,
                   readyState, sw, cb, conn, epoch, picks, aux>>

\* The walk of message handler r is over: the structure is sent on the
\* socket the request came from.
MessageSend(r) ==
    /\ rq[r].pc = "build"
    /\ \E v \in Readable(rq[r].dir, rq[r].from), b \in RelBases(rq[r].dir) :
          inbox' = Send(inbox, rq[r].client,
                        StructureMsg("request", 0, NoPath, rq[r].dir, v, b))
    /\ rq' = [rq EXCEPT ![r] = [IdleRq EXCEPT !.pc = "done"]]
    /\ UNCHANGED <<ops, projectRoot, watcher, sessions, recentProjects, fsver, clients,
                   readyState, sw, cb, conn, epoch, stats, picks, aux>>

\* The connection of client c dies: its socket leaves OPEN.  It stays in
\* wss.clients until its 'close' event.
ClientFails(c) ==
    /\ c \in clients
    /\ readyState[c] = OPEN
    /\ readyState' = [readyState EXCEPT ![c] = CLOSING]
    /\ UNCHANGED <<ops, projectRoot, watcher, sessions, recentProjects, fsver, clients,
                   inbox, sw, cb, conn, epoch, stats, rq, picks, aux>>

\* The 'close' event of socket c: the server deletes it from wss.clients.
ClientCloses(c) ==
    /\ c \in clients
    /\ readyState[c] = CLOSING
    /\ readyState' = [readyState EXCEPT ![c] = CLOSED]
    /\ clients' = clients \ {c}
    /\ UNCHANGED <<ops, projectRoot, watcher, sessions, recentProjects, fsver,
                   inbox, sw, cb, conn, epoch, stats, rq, picks, aux>>

\* ------------------------------------------------------------ specification
Next ==
    \/ \E k \in SwitchIds, p \in ReqPaths : SwitchRequest(k, p)
    \/ \E k \in SwitchIds : SwitchInvalid(k)
    \/ \E k \in SwitchIds : SwitchAssign(k)
    \/ \E k \in SwitchIds : SwitchRestart(k)
    \/ \E k \in SwitchIds : SwitchWatchThrows(k)
    \/ \E k \in SwitchIds : SwitchBroadcast(k)
    \/ \E e \in EventIds, s \in DOMAIN sessions, f \in Filenames : WatchEvent(e, s, f)
    \/ \E e \in EventIds : CallbackBroadcast(e)
    \/ \E s \in DOMAIN sessions : WatchError(s)
    \/ \E c \in ClientIds : Connect(c)
    \/ \E c \in ClientIds : ConnectSend(c)
    \/ \E c \in ClientIds : ClientFails(c)
    \/ \E c \in ClientIds : ClientCloses(c)
    \/ \E r \in MsgIds, c \in ClientIds, d \in MsgData : ClientMessage(r, c, d)
    \/ \E r \in MsgIds : MessageSend(r)

Spec == Init /\ [][Next]_vars

\* ----------------------------------------- the recent list at its capacity
\* recentProjects after the first n directories of RecentOrder have been
\* selected one after the other.
RECURSIVE Selected(_)
Selected(n) == IF n = 0 THEN <<>> ELSE RecentAdd(Selected(n - 1), <<RecentOrder[n]>>)

\* How many selections the server has behind it when observation starts.
StartLens == (RECENT_CAP - 2) .. RECENT_CAP

\* The server after n sequential, successful POST /api/set-project
\* requests, for the first n directories of RecentOrder: the root is the
\* last of them, every watcher but the last is closed, no client has
\* connected.
InitRecent ==
    \E n \in StartLens :
        /\ projectRoot = <<RecentOrder[n]>>
        /\ sessions = [i \in 1..(n + 1) |->
                          [root |-> IF i = 1 THEN ProjDir ELSE <<RecentOrder[i - 1]>>,
                           active |-> i = n + 1, failed |-> FALSE]]
        /\ watcher = n + 1
        /\ recentProjects = Selected(n)
        /\ picks = [i \in 1..n |-> <<RecentOrder[i]>>]
        /\ epoch = n
        /\ fsver = [d \in DirPaths |-> 0]
        /\ clients = {}
        /\ readyState = [c \in ClientIds |-> 0]
        /\ inbox = [c \in ClientIds |-> <<>>]
        /\ sw = [k \in SwitchIds |-> IdleSw]
        /\ cb = [e \in EventIds |-> IdleCb]
        /\ conn = [c \in ClientIds |-> IdleConn]
        /\ rq = [r \in MsgIds |-> IdleRq]
        /\ ops = 0
        /\ stats = [events |-> 0, fileChange |-> 0, structure |-> n, rebuilds |-> 0,
                    calls |-> n, asked |-> 0, served |-> 0]
        /\ InitAux

\* No set-project handler is between its request and its answer.
NoSwitchPending == \A k \in SwitchIds : sw[k].pc \in {"idle", "done"}

\* Further POST /api/set-project requests for the directories of
\* RecentOrder, each made once the one before it has been answered.
NextRecent ==
    \/ \E k \in SwitchIds, p \in RecentDirs : NoSwitchPending /\ SwitchRequest(k, p)
    \/ \E k \in SwitchIds : SwitchAssign(k)
    \/ \E k \in SwitchIds : SwitchRestart(k)
    \/ \E k \in SwitchIds : SwitchBroadcast(k)

SpecRecent == InitRecent /\ [][NextRecent]_vars

\* ------------------------------------------------------- the tree walk
\* size: stats.isFile() ? stats.size : null
NullSize == 0 - 1

\* The components of absolute path p below /proj.
Below(p) == SubSeq(p, Len(ProjDir) + 1, Len(p))
\* How many symbolic links the resolution of p follows, and the entry of
\* the project p resolves to: loop points back at /proj.
Links(p) == Len(SelectSeq(Below(p), LAMBDA c : c = "loop"))
Real(p) == SelectSeq(Below(p), LAMBDA c : c # "loop")
EntryAt(fs, p) ==
    IF Real(p) = <<>> THEN Folder
    ELSE IF Real(p) \in TreePaths THEN fs[Real(p)] ELSE Nothing

\* await stat(path): the error it rejects with, or the Stats object.
\* stat follows symbolic links.
TreeStat(fs, p) ==
    LET e == EntryAt(fs, p)
        err == IF Links(p) > SymlinkDepth THEN "ELOOP"
               ELSE IF e.kind \in {"none", "vanished"} THEN "ENOENT" ELSE ""
    IN [err |-> err,
        isDirectory |-> err = "" /\ e.kind \in {"dir", "locked"},
        isFile |-> err = "" /\ e.kind = "file",
        size |-> IF err = "" THEN e.size ELSE 0]

\* await readdir(dir): the error it rejects with, or the names listed.
TreeReaddir(fs, p) ==
    LET e == EntryAt(fs, p)
        err == IF Links(p) > SymlinkDepth THEN "ELOOP"
               ELSE IF e.kind \in {"none", "vanished"} THEN "ENOENT"
               ELSE IF e.kind = "locked" THEN "EACCES"
               ELSE IF e.kind # "dir" THEN "ENOTDIR" ELSE ""
    IN [err |-> err,
        items |-> IF err # "" THEN {}
                  ELSE {q[Len(q)] : q \in {t \in TreePaths :
                                              /\ Len(t) = Len(Real(p)) + 1
                                              /\ SubSeq(t, 1, Len(Real(p))) = Real(p)
                                              /\ fs[t].kind # "none"}}]

\* Mutant of SkipItem: only node_modules is skipped.
SkipDepsOnly(item) == item = "node_modules"

\* if (item === 'node_modules' || item === '.git') continue
SkipItem(item) == item = "node_modules" \/ item = ".git"

\* Mutant of NodeType: every node is a file.
NodeTypeAllFiles(st) == "file"

\* type: stats.isDirectory() ? 'directory' : 'file'
NodeType(st) == IF st.isDirectory THEN "directory" ELSE "file"

\* Mutant of NodeSize: the size grows with every walk made before.
NodeSizeByCall(st) == IF st.isFile THEN st.size + Len(built) ELSE NullSize

\* size: stats.isFile() ? stats.size : null
NodeSize(st) == IF st.isFile THEN st.size ELSE NullSize

\* The items of a listing that get a node: those whose stat resolves (a
\* rejection is caught per item and logged) and that are not skipped.
Pushed(fs, dir, items) ==
    {item \in items : TreeStat(fs, Append(dir, item)).err = "" /\ ~ SkipItem(item)}

\* getDirectoryStructure(dir) while projectRoot is base: the nodes it
\* returns, in no order.  A rejected readdir is caught and [] returned.
\* hasChildren says whether the node has a `children` property.
RECURSIVE GetDirectoryStructure(_, _, _)
GetDirectoryStructure(fs, base, dir) ==
    LET listing == TreeReaddir(fs, dir)
    IN IF listing.err # "" THEN {}
       ELSE {[name |-> item,
              path |-> Relative(base, Append(dir, item)),
              type |-> NodeType(TreeStat(fs, Append(dir, item))),
              size |-> NodeSize(TreeStat(fs, Append(dir, item))),
              hasChildren |-> TreeStat(fs, Append(dir, item)).isDirectory,
              children |-> IF TreeStat(fs, Append(dir, item)).isDirectory
                           THEN GetDirectoryStructure(fs, base, Append(dir, item))
                           ELSE {}] : item \in Pushed(fs, dir, listing.items)}

\* The paths readdir is called with in the course of
\* getDirectoryStructure(dir): dir itself and every pushed directory below.
RECURSIVE Visited(_, _)
Visited(fs, dir) ==
    {dir} \cup UNION {Visited(fs, Append(dir, item)) :
                        item \in {i \in Pushed(fs, dir, TreeReaddir(fs, dir).items) :
                                     TreeStat(fs, Append(dir, i)).isDirectory}}

\* Whether the promise of getDirectoryStructure rejects: never, the outer
\* catch returns [] for whatever readdir rejected with.
Rejects(fs, dir) == FALSE

\* The values of projectRoot a walk is observed with: /proj, its entry sub
\* and its entry a.txt (a root that has been removed or replaced since it
\* was selected included).
BuildRoots == {ProjDir, ProjDir \o <<"sub">>, ProjDir \o <<"a.txt">>}

InitBuild ==
    /\ projectRoot \in BuildRoots
    /\ sessions = << [root |-> projectRoot, active |-> TRUE, failed |-> FALSE] >>
    /\ watcher = 1
    /\ recentProjects = <<>>
    /\ picks = <<>>
    /\ rq = [r \in MsgIds |-> IdleRq]
    /\ fsver = [d \in DirPaths |-> 0]
    /\ clients = {}
    /\ readyState = [c \in ClientIds |-> 0]
    /\ inbox = [c \in ClientIds |-> <<>>]
    /\ sw = [k \in SwitchIds |-> IdleSw]
    /\ cb = [e \in EventIds |-> IdleCb]
    /\ conn = [c \in ClientIds |-> IdleConn]
    /\ epoch = 0
    /\ ops = 0
    /\ stats = [events |-> 0, fileChange |-> 0, structure |-> 0, rebuilds |-> 0,
                calls |-> 0, asked |-> 0, served |-> 0]
    /\ tree \in Trees
    /\ InitView

\* One call getDirectoryStructure(projectRoot), run to its end with the
\* project as it is: the call, its result and the directories it read are
\* logged.
BuildCall ==
    /\ Len(built) < MaxBuilds
    /\ built' = Append(built,
                    [root |-> projectRoot, of |-> tree,
                     out |-> GetDirectoryStructure(tree, projectRoot, projectRoot),
                     rejected |-> Rejects(tree, projectRoot),
                     visited |-> Visited(tree, projectRoot)])
    /\ UNCHANGED <<projectRoot, watcher, sessions, recentProjects, fsver, clients,
                   readyState, inbox, sw, cb, conn, epoch, ops, rq, picks, stats,
                   tree, nav, currentPath, page, link, launcher>>

\* Between two walks the entry a.txt of the project becomes a.
TreeChange(a) ==
    /\ a # tree[<<"a.txt">>]
    /\ tree' = [tree EXCEPT ![<<"a.txt">>] = a]
    /\ UNCHANGED <<projectRoot, watcher, sessions, recentProjects, fsver, clients,
                   readyState, inbox, sw, cb, conn, epoch, ops, rq, picks, stats,
                   built, nav, currentPath, page, link, launcher>>

NextBuild ==
    \/ BuildCall
    \/ \E a \in FileEntries \cup {Nothing, Entry("vanished", 0), Entry("fifo", 0)} :
          TreeChange(a)

SpecBuild == InitBuild /\ [][NextBuild]_vars

\* ------------------------------------------------- the watcher on its own
\* Clients connect and the watcher of the initial root reports events, for
\* any of WatchNames; no switch is requested.
NextWatch ==
    \/ \E c \in ClientIds : Connect(c)
    \/ \E c \in ClientIds : ConnectSend(c)
    \/ \E e \in EventIds, s \in DOMAIN sessions, f \in WatchNames : WatchEvent(e, s, f)
    \/ \E e \in EventIds : CallbackBroadcast(e)

SpecWatch == Init /\ [][NextWatch]_vars

\* ------------------------------------------------- browsing directories
\* The paths the viewer navigates to: /, a directory, a directory written
\* with a "." segment, a path that does not exist, a regular file.
NavPaths == {RootPath, ProjDir, OtherDir, <<"proj", ".">>, <<"missing">>,
             <<"proj", "a.txt">>}

\* What the viewer reads as data.current from a response body that has no
\* such property: undefined.
Undefined == <<"undefined">>

\* GET /api/directories?path=p: resolve(path), await readdir(resolvedPath);
\* 200 with {current: resolvedPath, items} if the listing succeeds, else
\* 500 with {error}.  `current` is what data.current evaluates to.
BrowseReply(p) ==
    IF Resolve(p) \in DirPaths \cup {RootPath}
    THEN [status |-> 200, current |-> Resolve(p)]
    ELSE [status |-> 500, current |-> Undefined]

\* The server as it starts, or after one answered switch to /other.
InitBrowse ==
    /\ \/ Init
       \/ /\ projectRoot = OtherDir
          /\ sessions = << [root |-> ProjDir, active |-> FALSE, failed |-> FALSE],
                           [root |-> OtherDir, active |-> TRUE, failed |-> FALSE] >>
          /\ watcher = Len(sessions)
          /\ recentProjects = RecentAdd(<<>>, OtherDir)
          /\ picks = <<OtherDir>>
          /\ epoch = 1
          /\ rq = [r \in MsgIds |-> IdleRq]
          /\ fsver = [d \in DirPaths |-> 0]
          /\ clients = {}
          /\ readyState = [c \in ClientIds |-> 0]
          /\ inbox = [c \in ClientIds |-> <<>>]
          /\ sw = [k \in SwitchIds |-> IdleSw]
          /\ cb = [e \in EventIds |-> IdleCb]
          /\ conn = [c \in ClientIds |-> IdleConn]
          /\ ops = 0
          /\ stats = [events |-> 0, fileChange |-> 0, structure |-> 1, rebuilds |-> 0,
                      calls |-> 1, asked |-> 0, served |-> 0]
          /\ InitAux

\* selectDirectory(p) / navigateTo(p): loadDirectories(p) sends its fetch
\* and awaits the response.
Navigate(n, p) ==
    /\ nav[n].pc = "idle"
    /\ \A j \in NavIds : j < n => nav[j].pc # "idle"
    /\ nav' = [nav EXCEPT ![n] = [IdleNav EXCEPT !.pc = "fetch", !.path = p]]
    /\ UNCHANGED <<projectRoot, watcher, sessions, recentProjects, fsver, clients,
                   readyState, inbox, sw, cb, conn, epoch, ops, rq, picks, stats,
                   tree, built, currentPath, page, link, launcher>>

\* Mutant of BrowseRespond: the handler makes the browsed directory the
\* project root.
BrowseRespondAssigns(n) ==
    /\ nav[n].pc = "fetch"
    /\ nav' = [nav EXCEPT ![n] = [pc |-> "reply", path |-> @.path,
                                  status |-> BrowseReply(@.path).status,
                                  current |-> BrowseReply(@.path).current]]
    /\ projectRoot' = Resolve(nav[n].path)
    /\ UNCHANGED <<watcher, sessions, recentProjects, fsver, clients,
                   readyState, inbox, sw, cb, conn, epoch, ops, rq, picks, stats,
                   tree, built, currentPath, page, link, launcher>>

\* The handler of GET /api/directories answers request n.  It reads the
\* file system and assigns no variable of the module.
BrowseRespond(n) ==
    /\ nav[n].pc = "fetch"
    /\ nav' = [nav EXCEPT ![n] = [pc |-> "reply", path |-> @.path,
                                  status |-> BrowseReply(@.path).status,
                                  current |-> BrowseReply(@.path).current]]
    /\ UNCHANGED <<projectRoot, watcher, sessions, recentProjects, fsver, clients,
                   readyState, inbox, sw, cb, conn, epoch, ops, rq, picks, stats,
                   tree, built, currentPath, page, link, launcher>>

\* updateBreadcrumb(path): the element is emptied, then path.split throws
\* if path is undefined; else the root item and one item per part are
\* appended, whose texts read as the path.
UpdateBreadcrumb(path) == IF path = Undefined THEN Blank ELSE path

\* The response of navigation n arrives, in whatever order the network
\* delivers: currentPath = data.current, whatever the status, then
\* updateBreadcrumb(currentPath).  With data.current undefined
\* updateBreadcrumb throws and the catch shows an error.  The label of the
\* select button is not written here.
ViewerReceive(n) ==
    /\ nav[n].pc = "reply"
    /\ currentPath' = nav[n].current
    /\ breadcrumb' = UpdateBreadcrumb(nav[n].current)
    /\ status' = IF nav[n].current = Undefined THEN "error" ELSE status
    /\ nav' = [nav EXCEPT ![n] = [IdleNav EXCEPT !.pc = "done", !.path = nav[n].path,
                                                 !.status = nav[n].status]]
    /\ UNCHANGED <<projectRoot, watcher, sessions, recentProjects, fsver, clients,
                   readyState, inbox, sw, cb, conn, epoch, ops, rq, picks, stats,
                   tree, built, selectLabel, modalVisible, currentProject, opener, sel,
                   link, launcher>>

\* The fetch of navigation n rejects (the server cannot be reached): the
\* catch shows an error, currentPath stays.
NavigateFails(n) ==
    /\ nav[n].pc = "fetch"
    /\ nav' = [nav EXCEPT ![n] = [IdleNav EXCEPT !.pc = "done", !.path = nav[n].path]]
    /\ status' = "error"
    /\ UNCHANGED <<projectRoot, watcher, sessions, recentProjects, fsver, clients,
                   readyState, inbox, sw, cb, conn, epoch, ops, rq, picks, stats,
                   tree, built, currentPath, breadcrumb, selectLabel, modalVisible,
                   currentProject, opener, sel, link, launcher>>

NextBrowse ==
    \/ \E n \in NavIds, p \in NavPaths : Navigate(n, p)
    \/ \E n \in NavIds : BrowseRespond(n)
    \/ \E n \in NavIds : ViewerReceive(n)
    \/ \E n \in NavIds : NavigateFails(n)

SpecBrowse == InitBrowse /\ [][NextBrowse]_vars

\* ----------------------------------------------------- the selector page
Range(q) == {q[i] : i \in DOMAIN q}

\* What none of the page's own steps touches.
server == <<projectRoot, watcher, sessions, recentProjects, fsver, clients,
            readyState, inbox, sw, cb, conn, epoch, ops, rq, picks, stats>>

\* The directories the user walks to in the modal: two that exist and one
\* that has been removed since it was listed.
PagePaths == {ProjDir, OtherDir, <<"missing">>}

\* Nothing of the page is waiting for a response.
NothingPending ==
    /\ \A n \in NavIds : nav[n].pc \in {"idle", "done"}
    /\ opener.pc = "idle"
    /\ \A k \in SwitchIds : sel[k].pc \in {"idle", "done"}

\* The user acts when nothing is pending, MaxClicks times at most.
PageIdle ==
    /\ Cardinality({n \in NavIds : nav[n].pc # "idle"})
          + Cardinality({k \in SwitchIds : sel[k].pc # "idle"}) < MaxClicks
    /\ NothingPending

\* showProjectSelector(): the modal is shown and loadDirectories(currentPath)
\* sends its fetch, as navigation n.
ShowProjectSelector(n) ==
    /\ opener.pc = "idle"
    /\ nav[n].pc = "idle"
    /\ \A j \in NavIds : j < n => nav[j].pc # "idle"
    /\ modalVisible' = TRUE
    /\ nav' = [nav EXCEPT ![n] = [IdleNav EXCEPT !.pc = "fetch", !.path = currentPath]]
    /\ opener' = [pc |-> "dirs", nav |-> n]
    /\ UNCHANGED <<server, tree, built, currentPath, breadcrumb, selectLabel,
                   currentProject, status, sel, link, launcher>>

\* loadDirectories has returned: loadRecentProjects() sends its fetch.
OpenerRecent ==
    /\ opener.pc = "dirs"
    /\ nav[opener.nav].pc = "done"
    /\ opener' = [opener EXCEPT !.pc = "recent"]
    /\ UNCHANGED <<server, tree, built, nav, currentPath, breadcrumb, selectLabel,
                   modalVisible, currentProject, status, sel, link, launcher>>

\* loadRecentProjects has returned, with the list drawn (ok) or from its
\* catch: updateSelectButton() writes currentPath into the button's label.
OpenerDone(ok) ==
    /\ opener.pc = "recent"
    /\ status' = IF ok THEN status ELSE "error"
    /\ selectLabel' = currentPath
    /\ opener' = IdleOpener
    /\ UNCHANGED <<server, tree, built, nav, currentPath, breadcrumb, modalVisible,
                   currentProject, sel, link, launcher>>

\* hideProjectSelector(), from the modal's close button.
HideProjectSelector ==
    /\ modalVisible
    /\ modalVisible' = FALSE
    /\ UNCHANGED <<server, tree, built, nav, currentPath, breadcrumb, selectLabel,
                   currentProject, status, opener, sel, link, launcher>>

\* selectProject(p), from an item of the recent list or, with
\* p = currentPath, from selectCurrentDirectory(): the POST is sent.
SelectProject(k, p) ==
    /\ sel[k].pc = "idle"
    /\ \A j \in SwitchIds : j < k => sel[j].pc # "idle"
    /\ sel' = [sel EXCEPT ![k] = [IdleSel EXCEPT !.pc = "fetch", !.path = p]]
    /\ UNCHANGED <<server, tree, built, nav, currentPath, breadcrumb, selectLabel,
                   modalVisible, currentProject, status, opener, link, launcher>>

\* Mutant of ResponseOk: the status of the response is not looked at.
ResponseOkAlways(resp) == TRUE

\* response.ok: the handler answered res.json({success: true}), status 200.
ResponseOk(resp) == resp = "ok"

\* The response to the POST of call k has arrived.  Not ok: the throw lands
\* in the catch, which shows an error.  Ok: #current-project shows the path,
\* the modal is hidden, the change is announced.
SelectReceive(k) ==
    /\ sel[k].pc = "fetch"
    /\ sw[k].pc = "done"
    /\ IF ResponseOk(sw[k].resp)
       THEN /\ currentProject' = sel[k].path
            /\ modalVisible' = FALSE
            /\ status' = "info"
       ELSE /\ status' = "error"
            /\ UNCHANGED <<currentProject, modalVisible>>
    /\ sel' = [sel EXCEPT ![k] = [@ EXCEPT !.pc = "done", !.outcome = sw[k].resp]]
    /\ UNCHANGED <<server, tree, built, nav, currentPath, breadcrumb, selectLabel,
                   opener, link, launcher>>

\* The fetch of call k rejects (the connection breaks before the response
\* of the handler is read): the catch shows an error.
SelectRejects(k) ==
    /\ sel[k].pc = "fetch"
    /\ sw[k].pc = "done"
    /\ status' = "error"
    /\ sel' = [sel EXCEPT ![k] = [@ EXCEPT !.pc = "done", !.outcome = "rejected"]]
    /\ UNCHANGED <<server, tree, built, nav, currentPath, breadcrumb, selectLabel,
                   modalVisible, currentProject, opener, link, launcher>>

\* The user acts on the page when nothing is pending; the server handles
\* what the page has sent.  (The model's file system has no project at /
\* itself, so selectCurrentDirectory() is used after a navigation.)
NextPage ==
    \/ \E n \in NavIds : PageIdle /\ ShowProjectSelector(n)
    \/ \E n \in NavIds, p \in PagePaths : PageIdle /\ modalVisible /\ Navigate(n, p)
    \/ \E n \in NavIds : BrowseRespond(n)
    \/ \E n \in NavIds : ViewerReceive(n)
    \/ \E n \in NavIds : NavigateFails(n)
    \/ OpenerRecent
    \/ \E ok \in BOOLEAN : OpenerDone(ok)
    \/ PageIdle /\ HideProjectSelector
    \/ \E k \in SwitchIds, p \in {currentPath} \cup Range(recentProjects) :
          PageIdle /\ modalVisible /\ p # RootPath /\ SelectProject(k, p)
    \/ \E k \in SwitchIds : sel[k].pc = "fetch" /\ SwitchRequest(k, sel[k].path)
    \/ \E k \in SwitchIds : SwitchInvalid(k)
    \/ \E k \in SwitchIds : SwitchAssign(k)
    \/ \E k \in SwitchIds : SwitchRestart(k)
    \/ \E k \in SwitchIds : SwitchWatchThrows(k)
    \/ \E k \in SwitchIds : SwitchBroadcast(k)
    \/ \E k \in SwitchIds : SelectReceive(k)
    \/ \E k \in SwitchIds : SelectRejects(k)

SpecPage == Init /\ [][NextPage]_vars

\* ------------------------------------------------ the viewer's connection
\* What the connection's steps leave alone.
rest == <<server, tree, built, nav, currentPath, breadcrumb, selectLabel,
          modalVisible, currentProject, opener, sel, launcher>>

\* A socket that has not closed yet.
Live(i) == socks[i].state \in {"connecting", "open"}

\* A reconnect timer fires: connectWebSocket() creates a socket and assigns
\* it to ws.
ConnectWebSocket ==
    /\ timers > 0
    /\ Len(socks) < MaxSockets
    /\ timers' = timers - 1
    /\ socks' = Append(socks, NewSocket)
    /\ ws' = Len(socks) + 1
    /\ UNCHANGED <<reconnectAttempts, status, rest>>

\* requestStructure(): the request goes out on ws if ws is open.
RequestStructure(ss) ==
    IF ws # 0 /\ ss[ws].state = "open" THEN [ss EXCEPT ![ws].sent = @ + 1] ELSE ss

\* onopen of socket i: the connection is announced, the counter is reset,
\* the structure is requested.
SocketOpen(i) ==
    /\ socks[i].state = "connecting"
    /\ status' = "info"
    /\ reconnectAttempts' = 0
    /\ socks' = RequestStructure([socks EXCEPT ![i].state = "open", ![i].opened = TRUE])
    /\ UNCHANGED <<ws, timers, rest>>

\* Mutant of CloseSchedules: a close always schedules a reconnect.
CloseSchedulesAlways(n) == TRUE

\* reconnectAttempts < maxReconnectAttempts
CloseSchedules(n) == n < maxReconnectAttempts

\* onclose of socket i, whether it had opened or not: below the limit the
\* counter is incremented and one reconnect is scheduled; at the limit the
\* user is told to refresh.
SocketClose(i) ==
    /\ Live(i)
    /\ socks' = [socks EXCEPT ![i].state = "closed"]
    /\ IF CloseSchedules(reconnectAttempts)
       THEN /\ reconnectAttempts' = reconnectAttempts + 1
            /\ status' = "warning"
            /\ timers' = timers + 1
       ELSE /\ status' = "error"
            /\ UNCHANGED <<reconnectAttempts, timers>>
    /\ UNCHANGED <<ws, rest>>

\* Mutant of SocketError: the error handler schedules a reconnect of its own.
SocketErrorReconnects(i) ==
    /\ Live(i)
    /\ status' = "error"
    /\ timers' = timers + 1
    /\ UNCHANGED <<ws, socks, reconnectAttempts, rest>>

\* onerror of socket i: an error status is shown, nothing else; the
\* browser closes the socket afterwards, which is SocketClose.
SocketError(i) ==
    /\ Live(i)
    /\ status' = "error"
    /\ UNCHANGED <<ws, socks, timers, reconnectAttempts, rest>>

NextLink ==
    \/ ConnectWebSocket
    \/ \E i \in DOMAIN socks : SocketOpen(i)
    \/ \E i \in DOMAIN socks : SocketClose(i)
    \/ \E i \in DOMAIN socks : SocketError(i)

SpecLink == Init /\ [][NextLink]_vars

\* ------------------------------------------------------------ the launcher
\* What the launcher's steps leave alone.
others == <<server, tree, built, nav, currentPath, page, link>>

\* The launcher as it is run: with no argument or with "stop", with no PID
\* file or with the one an earlier run left behind; the server and the
\* viewer as constructed.
InitLaunch ==
    /\ projectRoot = ProjDir
    /\ sessions = << [root |-> ProjDir, active |-> TRUE, failed |-> FALSE] >>
    /\ watcher = 1
    /\ recentProjects = <<>>
    /\ picks = <<>>
    /\ rq = [r \in MsgIds |-> IdleRq]
    /\ fsver = [d \in DirPaths |-> 0]
    /\ clients = {}
    /\ readyState = [c \in ClientIds |-> 0]
    /\ inbox = [c \in ClientIds |-> <<>>]
    /\ sw = [k \in SwitchIds |-> IdleSw]
    /\ cb = [e \in EventIds |-> IdleCb]
    /\ conn = [c \in ClientIds |-> IdleConn]
    /\ epoch = 0
    /\ ops = 0
    /\ stats = [events |-> 0, fileChange |-> 0, structure |-> 0, rebuilds |-> 0,
                calls |-> 0, asked |-> 0, served |-> 0]
    /\ tree = PlainTree
    /\ built = <<>>
    /\ nav = [n \in NavIds |-> IdleNav]
    /\ currentPath = RootPath
    /\ InitPage
    /\ InitLink
    /\ lpc \in [cmd : {"start", "stop"}, at : {"load"}]
    /\ pidFile \in {Absent, Saved(ChildNames)}
    /\ processes = {}
    /\ children = [n \in ChildNames |-> "none"]
    /\ writes = <<>>

\* treeKill(pid) for the given names: a child that runs gets the signal.
TreeKill(ch, names) ==
    [n \in ChildNames |-> IF n \in names /\ ch[n] = "running" THEN "killed" ELSE ch[n]]

\* startProcess(name, ...): the child is spawned and entered in processes.
StartProcess(n) ==
    /\ children' = [children EXCEPT ![n] = "running"]
    /\ processes' = processes \cup {n}

\* stopAll(): readFile of loadPids has settled (a missing file gives an
\* empty map).  treeKill is called for the saved pids and for the pids of
\* processes, then unlink is called and awaited.
StopAllKills ==
    /\ lpc.at = "load"
    /\ children' = TreeKill(children, pidFile.lines \cup processes)
    /\ lpc' = [lpc EXCEPT !.at = "unlink"]
    /\ UNCHANGED <<processes, pidFile, writes, others>>

\* The unlink takes effect in the file system; the launcher has not been
\* told yet.
UnlinkEffect ==
    /\ lpc.at = "unlink"
    /\ pidFile' = Absent
    /\ lpc' = [lpc EXCEPT !.at = "unlinked"]
    /\ UNCHANGED <<processes, children, writes, others>>

\* The await of unlink is over: processes.clear(), stopAll returns.  After
\* "stop" or a signal the caller calls process.exit(0); start() goes on
\* with startProcess('server') and waits a second.
StopAllReturns ==
    /\ lpc.at = "unlinked"
    /\ IF lpc.cmd = "start"
       THEN /\ children' = [children EXCEPT !["server"] = "running"]
            /\ processes' = {"server"}
            /\ lpc' = [lpc EXCEPT !.at = "wait"]
       ELSE /\ processes' = {}
            /\ lpc' = [lpc EXCEPT !.at = "exited"]
            /\ UNCHANGED children
    /\ UNCHANGED <<pidFile, writes, others>>

\* The second is over: startProcess('vite'), then savePids() is called and
\* awaited: its writeFile carries the names processes holds now.
StartVite ==
    /\ lpc.at = "wait"
    /\ StartProcess("vite")
    /\ writes' = Append(writes, [lines |-> processes', own |-> TRUE])
    /\ lpc' = [lpc EXCEPT !.at = "save"]
    /\ UNCHANGED <<pidFile, others>>

\* The exit handler's savePids(), not awaited: a writeFile with the names
\* processes holds after the delete.
ExitSaves(ws_, names) == Append(ws_, [lines |-> names, own |-> FALSE])

\* Child n exits, killed ("reaped" afterwards) or on its own ("crashed"),
\* and the launcher handles the event: processes.delete(name); savePids().
ChildExit(n) ==
    /\ lpc.at # "exited"
    /\ children[n] \in {"running", "killed"}
    /\ children' = [children EXCEPT ![n] =
                        IF children[n] = "killed" THEN "reaped" ELSE "crashed"]
    /\ processes' = processes \ {n}
    /\ writes' = ExitSaves(writes, processes')
    /\ UNCHANGED <<lpc, pidFile, others>>

\* One of the pending writeFile calls takes effect, in whatever order the
\* thread pool runs them; the one start() awaits lets it register its
\* signal handlers.
WriteLands(i) ==
    /\ lpc.at # "exited"
    /\ pidFile' = Saved(writes[i].lines)
    /\ writes' = SubSeq(writes, 1, i - 1) \o SubSeq(writes, i + 1, Len(writes))
    /\ lpc' = IF writes[i].own THEN [lpc EXCEPT !.at = "running"] ELSE lpc
    /\ UNCHANGED <<processes, children, others>>

\* SIGINT or SIGTERM reaches the running launcher: handleShutdown calls
\* stopAll().
Signal ==
    /\ lpc.at = "running"
    /\ lpc' = [cmd |-> "signal", at |-> "load"]
    /\ UNCHANGED <<processes, children, pidFile, writes, others>>

NextLaunch ==
    \/ StopAllKills
    \/ UnlinkEffect
    \/ StopAllReturns
    \/ StartVite
    \/ \E n \in ChildNames : ChildExit(n)
    \/ \E i \in DOMAIN writes : WriteLands(i)
    \/ Signal

SpecLaunch == InitLaunch /\ [][NextLaunch]_vars

\* =================================================================== claims
ActiveSessions == {s \in DOMAIN sessions : sessions[s].active}
Failed(k) == sw[k].resp \in {"ENOENT", "ENOTDIR", "EWATCH"}
Quiet == \A k \in SwitchIds : sw[k].pc \in {"idle", "done"}
Mutating == {k \in SwitchIds : sw[k].pc \in {"write", "build"}}

\* C1: after any sequence of sequential switchRoot calls exactly one
\* WatchSession is active, and it is the latest one created; every earlier
\* session is inactive.
C1_ExactlyOneActiveWatch ==
    (Quiet /\ sw[1].pc = "done") =>
        /\ Cardinality(ActiveSessions) = 1
        /\ ActiveSessions = {Len(sessions)}

\* C2: at no instant are two watch sessions active: the old session is torn
\* down before (in the same uninterrupted run as) the start of the new one,
\* also between the steps of a switch and under interleaved switch requests;
\* a session that is active is the one `watcher` refers to.
C2_AtMostOneActiveWatch ==
    /\ Cardinality(ActiveSessions) <= 1
    /\ \A s \in ActiveSessions : s = watcher /\ s = Len(sessions)

\* C2 witness: two interleaved switch requests have both restarted the
\* watcher and are both waiting for their tree walk.
C2_Witness ==
    /\ sw[1].pc = "build" /\ sw[2].pc = "build"
    /\ Len(sessions) = 3
    /\ ActiveSessions = {3}

\* C3: a switchRoot whose path does not exist or is no directory is answered
\* with a failure, and the step that answers it changes neither the root,
\* the watcher, the watch sessions, the recent list nor any client's
\* messages, and calls no broadcast; such a request is never answered ok.
C3_InvalidRootRejected ==
    /\ [](\A k \in SwitchIds : sw[k].resp = "ok" => sw[k].path \in DirPaths)
    /\ [][\A k \in SwitchIds :
            (sw[k].pc = "stat" /\ sw'[k].pc # "stat" /\ sw[k].path \notin DirPaths) =>
                /\ sw'[k].pc = "done"
                /\ sw'[k].resp \in {"ENOENT", "ENOTDIR"}
                /\ UNCHANGED <<projectRoot, watcher, sessions, recentProjects,
                               inbox, stats>>]_vars

\* C3 witness: after a successful switch to /other a request for a file path
\* has been rejected, and the root is still /other.
C3_Witness ==
    /\ sw[1].resp = "ok" /\ sw[1].path = OtherDir
    /\ sw[2].resp = "ENOTDIR"
    /\ projectRoot = OtherDir
    /\ ActiveSessions = {2}

\* C4: when the only switchRoot call made so far has reported a failure, the
\* root, the recent list and the active WatchSession are what they were
\* before the call (the state the server started with).
C4_FailedSwitchLeavesState ==
    (Failed(1) /\ sw[2].pc = "idle") =>
        /\ projectRoot = ProjDir
        /\ recentProjects = <<>>
        /\ watcher = 1
        /\ sessions = << [root |-> ProjDir, active |-> TRUE, failed |-> FALSE] >>

\* The positions of client c's inbox that hold a message satisfying Is.
Positions(c, Is(_)) == {i \in DOMAIN inbox[c] : Is(inbox[c][i])}
IsSwitchSnapshot(m) == m.type = "structure" /\ m.origin = "switch"
Max(S) == CHOOSE x \in S : \A y \in S : y <= x

\* C5: switchRoot calls are serialized: at most one request at a time is
\* between its first mutation and its answer, and once all requests are
\* answered the root, the active watch and the last snapshot a switch
\* broadcast belong to the same request.
C5_SwitchesSerialized ==
    /\ Cardinality(Mutating) <= 1
    /\ (Quiet /\ \E k \in SwitchIds : sw[k].resp = "ok") =>
          /\ \A s \in ActiveSessions : sessions[s].root = projectRoot
          /\ \A c \in ClientIds :
                Positions(c, IsSwitchSnapshot) # {} =>
                    LET m == inbox[c][Max(Positions(c, IsSwitchSnapshot))]
                    IN m.dir = projectRoot /\ m.root = projectRoot

\* C6: no message a watcher callback broadcasts stems from an event of a
\* root other than the current one: once a switch has assigned a new root, a
\* fileChange of the old root's watcher is not broadcast, and a structure
\* built for an old-root event or from the old root's directory is dropped.
C6_NoStaleWatchBroadcast ==
    \A c \in ClientIds : \A i \in DOMAIN inbox[c] :
        inbox[c][i].origin = "watch" =>
            /\ inbox[c][i].wroot = inbox[c][i].root
            /\ inbox[c][i].type = "structure" => inbox[c][i].dir = inbox[c][i].root

\* C7: when a switch to root r that no other switch overtook broadcasts its
\* snapshot, every open registered client receives it as its next message
\* and it is a snapshot of r; and while r remains the root, no fileChange of
\* a watcher of another root follows that snapshot in any client's inbox.
C7_SnapshotThenNoOldNotice ==
    /\ [][\A k \in SwitchIds :
            (sw[k].pc = "build" /\ sw'[k].resp = "ok" /\ sw[k].ep = epoch) =>
                \A c \in clients : readyState[c] = OPEN =>
                    /\ Len(inbox'[c]) = Len(inbox[c]) + 1
                    /\ LET m == inbox'[c][Len(inbox'[c])]
                       IN /\ m.type = "structure"
                          /\ m.dir = sw[k].path
                          /\ m.root = sw[k].path
                          /\ m.name = Base(sw[k].path)]_vars
    /\ [](\A c \in ClientIds : \A i, j \in DOMAIN inbox[c] :
            (/\ i < j
             /\ IsSwitchSnapshot(inbox[c][i])
             /\ inbox[c][i].own = inbox[c][i].ep
             /\ inbox[c][j].type = "fileChange"
             /\ inbox[c][j].ep = inbox[c][i].ep) =>
                inbox[c][j].wroot = inbox[c][i].root)

\* C7 witness: a client that connected under /proj has received the snapshot
\* of the switch to /other and, after it, a fileChange of /other's watcher.
C7_Witness ==
    \E i, j \in DOMAIN inbox[1] :
        /\ i < j
        /\ IsSwitchSnapshot(inbox[1][i])
        /\ inbox[1][i].dir = OtherDir /\ inbox[1][i].name = "other"
        /\ inbox[1][j].type = "fileChange" /\ inbox[1][j].wroot = OtherDir

\* C8: the first message a client receives is the snapshot its own
\* connection handler sends: nothing is delivered to it before that.
C8_InitialSnapshotFirst ==
    \A c \in ClientIds :
        inbox[c] # <<>> =>
            inbox[c][1].type = "structure" /\ inbox[c][1].origin = "connect"

\* C9: a call of broadcast with several registered clients delivers the
\* message to every registered client it can deliver to, and every
\* registered client it cannot deliver to is absent from the registered set
\* when the call returns.
C9_FanOutIsolation ==
    [][(stats'.calls = stats.calls + 1 /\ Cardinality(clients) >= 2) =>
          \A c \in clients :
             IF readyState[c] = OPEN
             THEN Len(inbox'[c]) = Len(inbox[c]) + 1
             ELSE c \notin clients']_vars

\* Watcher callbacks suspended in their tree walk.
Rebuilding == {e \in EventIds : cb[e].pc = "build"}

IsWatchSnapshot(m) == m.type = "structure" /\ m.origin = "watch"
IsFileChange(m) == m.type = "fileChange"

\* C11: once a burst of change events is over (no switch was requested, no
\* callback is still walking the tree), a client has received at most one
\* structure broadcast after the last change notice, and the last structure
\* a callback broadcast to it describes the directory as it is now.
C11_TrailingEmissionFinal ==
    (sw[1].pc = "idle" /\ Rebuilding = {} /\ stats.events > 0) =>
        \A c \in ClientIds :
            Positions(c, IsFileChange) # {} =>
                LET lastNotice == Max(Positions(c, IsFileChange))
                    trailing == {i \in Positions(c, IsWatchSnapshot) : i > lastNotice}
                IN /\ Cardinality(trailing) <= 1
                   /\ trailing # {} =>
                         inbox[c][Max(trailing)].ver = fsver[inbox[c][Max(trailing)].dir]

\* A session that watcher.close() has stopped.
Stopped(s) == ~ sessions[s].active /\ ~ sessions[s].failed

\* C12: a watcher callback whose session has been stopped and replaced
\* while it was suspended in its tree walk delivers nothing when the walk
\* ends: its structure is dropped.
C12_StoppedSessionEmitsNothing ==
    [][\A e \in EventIds :
          (/\ cb[e].pc = "build" /\ cb'[e].pc = "done"
           /\ Stopped(cb[e].sess) /\ watcher # cb[e].sess) =>
              inbox' = inbox]_vars

\* C13: the step in which a watch session fails leaves it inactive and
\* delivers a message of type "error" to every open registered client.
C13_WatchErrorSurfaced ==
    [][\A s \in DOMAIN sessions :
          (~ sessions[s].failed /\ sessions'[s].failed) =>
              /\ ~ sessions'[s].active
              /\ \A c \in clients : readyState[c] = OPEN =>
                    /\ Len(inbox'[c]) = Len(inbox[c]) + 1
                    /\ inbox'[c][Len(inbox'[c])].type = "error"]_vars

C15_SnapshotOfOneRoot ==
    \A c \in ClientIds : \A i \in DOMAIN inbox[c] :
        inbox[c][i].type = "structure" =>
            /\ inbox[c][i].dir = inbox[c][i].root
            /\ inbox[c][i].name = Base(inbox[c][i].dir)
            /\ inbox[c][i].rel = inbox[c][i].root

\* C16: the result of a tree walk depends on the directory passed to it
\* only: the path of every node of a structure message is the node's path
\* below the directory the walk was called with.
C16_PathsRelativeToArgument ==
    \A c \in ClientIds : \A i \in DOMAIN inbox[c] :
        inbox[c][i].type = "structure" =>
            NodePaths(inbox[c][i]) = {<<item>> : item \in Kept}

\* When path p was selected last: its last position in picks.
LastPick(p) == Max({i \in DOMAIN picks : picks[i] = p})

\* C17: the recent list never holds more than 10 paths and never holds a
\* path twice, whatever switches are requested and however they interleave.
C17_RecentBoundedNoDuplicates ==
    /\ Len(recentProjects) <= RECENT_CAP
    /\ \A i, j \in DOMAIN recentProjects :
          recentProjects[i] = recentProjects[j] => i = j

\* C17 witness: more than 10 different directories have been selected, one
\* of them twice, and the list is full.
C17_Witness ==
    /\ Cardinality(Range(picks)) > RECENT_CAP
    /\ Len(picks) > Cardinality(Range(picks))
    /\ Len(recentProjects) = RECENT_CAP

\* C18: the recent list is ordered by recency of selection, in one
\* direction throughout (the path selected last at the most-recent end, any
\* two listed paths in the order of their latest selections), whether the
\* selected path was new to the list or already in it.
C18_OrderedByLatestSelection ==
    \/ \A i, j \in DOMAIN recentProjects :
          i < j => LastPick(recentProjects[i]) > LastPick(recentProjects[j])
    \/ \A i, j \in DOMAIN recentProjects :
          i < j => LastPick(recentProjects[i]) < LastPick(recentProjects[j])

\* C19: when a selection pushes a path out of the full list, that path is
\* the one whose latest selection lies furthest back: every path that stays
\* was selected more recently than the evicted one.
C19_EvictsLeastRecentlySelected ==
    [][\A x \in Range(recentProjects) \ Range(recentProjects') :
          \A y \in Range(recentProjects) \cap Range(recentProjects') :
              LastPick(x) < LastPick(y)]_vars

\* C20: every getStructure message a client sends starts a tree walk of the
\* root current at that moment; when the walk ends the requesting client,
\* and no other, is sent a structure read from that root no earlier than
\* the request; neither the message nor the answer changes the root, the
\* watcher or the recent list.
C20_GetStructureAnswersRequester ==
    /\ [](stats.served = stats.asked)
    /\ [][stats'.asked # stats.asked =>
            UNCHANGED <<projectRoot, watcher, sessions, recentProjects>>]_vars
    /\ [][\A r \in MsgIds :
            (rq[r].pc = "build" /\ rq'[r].pc = "done") =>
                /\ UNCHANGED <<projectRoot, watcher, sessions, recentProjects>>
                /\ \A c \in ClientIds : c # rq[r].client => inbox'[c] = inbox[c]
                /\ readyState[rq[r].client] = OPEN =>
                      /\ Len(inbox'[rq[r].client]) = Len(inbox[rq[r].client]) + 1
                      /\ LET m == inbox'[rq[r].client][Len(inbox'[rq[r].client])]
                         IN /\ m.type = "structure"
                            /\ m.dir = rq[r].dir
                            /\ m.ver >= rq[r].from]_vars

\* C21: the step that handles an inbound client message, malformed ones
\* included, touches one client at most, and only by an "error" message at
\* the end of its inbox: the registered set, the sockets, the root, the
\* watcher and its sessions, the recent list, the pending switch, watcher
\* and connection handlers and every other client's messages stay as they are.
C21_ClientErrorIsolated ==
    [][\A r \in MsgIds :
          (rq[r].pc = "idle" /\ rq'[r].pc # "idle") =>
              /\ UNCHANGED <<clients, readyState, projectRoot, watcher, sessions,
                             recentProjects, fsver, sw, cb, conn>>
              /\ \E c \in clients :
                    /\ \A o \in ClientIds \ {c} : inbox'[o] = inbox[o]
                    /\ \/ inbox'[c] = inbox[c]
                       \/ /\ inbox'[c] = Append(inbox[c], ErrorMsg)
                          /\ rq'[r].pc = "done"]_vars

\* C21 witness: of two connected clients the first has sent text that is no
\* JSON and has been answered with an "error" message; the second has its
\* initial structure and nothing else.
C21_Witness ==
    /\ clients = {1, 2}
    /\ Len(inbox[1]) = 2
    /\ inbox[1][2].type = "error"
    /\ Len(inbox[2]) = 1
    /\ inbox[2][1].origin = "connect"

\* Every node of a returned structure, at any depth.
RECURSIVE AllNodes(_)
AllNodes(nodes) == nodes \cup UNION {AllNodes(n.children) : n \in nodes}

IgnoredNames == {"node_modules", ".git"}
HasIgnored(p) == \E i \in DOMAIN p : p[i] \in IgnoredNames

\* C22: in every structure a walk returns no node is named node_modules or
\* .git and no node lies below a directory of such a name; the walk never
\* lists such a directory.
C22_IgnoredNeverInSnapshot ==
    \A i \in DOMAIN built :
        /\ \A n \in AllNodes(built[i].out) :
              n.name \notin IgnoredNames /\ ~ HasIgnored(n.path)
        /\ \A v \in built[i].visited :
              ~ HasIgnored(SubSeq(v, Len(built[i].root) + 1, Len(v)))

\* C22 witness: /proj holds node_modules, .git and sub with a node_modules
\* of its own; the walk of /proj has returned sub and has listed /proj/sub.
C22_Witness ==
    \E i \in DOMAIN built :
        /\ built[i].root = ProjDir
        /\ built[i].of[<<"node_modules">>].kind = "dir"
        /\ built[i].of[<<".git">>].kind = "dir"
        /\ built[i].of[<<"sub", "node_modules">>].kind = "dir"
        /\ \E n \in built[i].out : n.name = "sub" /\ n.hasChildren
        /\ ProjDir \o <<"sub">> \in built[i].visited

\* A project of regular files and directories only, all of them readable.
Plain(fs) == \A p \in TreePaths : fs[p].kind \in {"none", "file", "dir"}
\* The entries of kind k below directory root that no ignored name hides.
Under(fs, root, k) ==
    {p \in TreePaths :
        /\ Len(p) > Len(Below(root))
        /\ SubSeq(p, 1, Len(Below(root))) = Below(root)
        /\ fs[p].kind = k
        /\ ~ HasIgnored(SubSeq(p, Len(Below(root)) + 1, Len(p)))}
OfType(nodes, t) == {n \in AllNodes(nodes) : n.type = t}

\* C23: the walk of a directory holding N regular files and M directories
\* (those under ignored names not counted) returns N file nodes and M
\* directory nodes; a file node carries the size of its file and no
\* children, a directory node the size null and a children list.
C23_RoundTripCounts ==
    \A i \in DOMAIN built :
        (Plain(built[i].of) /\ EntryAt(built[i].of, built[i].root).kind = "dir") =>
            /\ Cardinality(OfType(built[i].out, "file")) =
                    Cardinality(Under(built[i].of, built[i].root, "file"))
            /\ Cardinality(OfType(built[i].out, "directory")) =
                    Cardinality(Under(built[i].of, built[i].root, "dir"))
            /\ \A n \in OfType(built[i].out, "file") :
                  /\ n.size = built[i].of[Below(built[i].root) \o n.path].size
                  /\ ~ n.hasChildren
            /\ \A n \in OfType(built[i].out, "directory") :
                  n.size = NullSize /\ n.hasChildren

\* C23 witness: /proj holds a.txt of 3 bytes and sub with b.txt; its walk
\* has returned two file nodes and one directory node.
C23_Witness ==
    \E i \in DOMAIN built :
        /\ Plain(built[i].of) /\ built[i].root = ProjDir
        /\ built[i].of[<<"a.txt">>] = Entry("file", 3)
        /\ built[i].of[<<"sub", "b.txt">>].kind = "file"
        /\ Cardinality(OfType(built[i].out, "file")) = 2
        /\ Cardinality(OfType(built[i].out, "directory")) = 1

\* C24: the walk of a readable directory returns a node for every listed
\* entry that is not ignored and does not fail, and none for an entry that
\* fails (stat rejected, or a subdirectory whose listing is refused).
C24_FailingEntryOmitted ==
    \A i \in DOMAIN built :
        EntryAt(built[i].of, built[i].root).kind = "dir" =>
            {n.name : n \in built[i].out} =
                {item \in TreeReaddir(built[i].of, built[i].root).items :
                    /\ item \notin IgnoredNames
                    /\ EntryAt(built[i].of, Append(built[i].root, item)).kind
                           \notin {"vanished", "locked"}}

\* C25: a walk called with a root that does not exist or is no directory
\* rejects instead of returning a structure.
C25_BadRootSignalled ==
    \A i \in DOMAIN built :
        EntryAt(built[i].of, built[i].root).kind \in {"none", "vanished", "file", "fifo"} =>
            built[i].rejected

\* C26: within one walk no directory is listed twice, by whatever path it
\* is reached, and a link that leads back into the walk is a leaf.
C26_NoDirectoryVisitedTwice ==
    \A i \in DOMAIN built :
        /\ \A v, w \in built[i].visited : Real(v) = Real(w) => v = w
        /\ \A n \in AllNodes(built[i].out) : n.name = "loop" => n.children = {}

\* The names, kinds, sizes and child counts of a structure.
RECURSIVE Shape(_)
Shape(nodes) ==
    {[name |-> n.name, type |-> n.type, size |-> n.size,
      count |-> Cardinality(n.children), children |-> Shape(n.children)] : n \in nodes}

C28_IgnoredEventsSilent ==
    [][\A e \in EventIds :
          (cb[e].pc = "idle" /\ cb'[e].pc # "idle" /\ fsver' = fsver) =>
              /\ cb'[e].pc = "done"
              /\ inbox' = inbox
              /\ stats'.calls = stats.calls]_vars

\* C28 witness: a client holds its initial structure and nothing else after
\* two raw events below ignored directories.
C28_Witness ==
    /\ cb[1].pc = "done" /\ cb[2].pc = "done"
    /\ fsver[ProjDir] = 0
    /\ conn[1].pc = "done"
    /\ Len(inbox[1]) = 1
    /\ stats.calls = 0

\* C29: the step in which GET /api/directories answers, with a listing or
\* with an error, leaves the root, the watcher and its sessions and the
\* recent list as they are.
C29_BrowseMutatesNothing ==
    [][\A n \in NavIds :
          (nav[n].pc = "fetch" /\ nav'[n].pc = "reply") =>
              UNCHANGED <<projectRoot, watcher, sessions, recentProjects>>]_vars

\* C29 witness: with /other the root, a browse of /proj has been answered
\* with a listing and a browse of a missing path with an error; the root is
\* still /other and the recent list still holds /other alone.
C29_Witness ==
    /\ nav[1].pc = "reply" /\ nav[1].path = ProjDir /\ nav[1].status = 200
    /\ nav[2].pc = "reply" /\ nav[2].path = <<"missing">> /\ nav[2].status = 500
    /\ projectRoot = OtherDir
    /\ recentProjects = <<OtherDir>>
    /\ watcher = 2 /\ sessions[2].active

\* The navigations issued so far.
Issued == {n \in NavIds : nav[n].pc # "idle"}

\* C30: once every navigation issued has completed, each with a response
\* from the server, the viewer's current path is the (resolved) path of one
\* of them.
C30_CurrentPathIsARequestedOne ==
    (Issued # {} /\ \A n \in Issued : nav[n].pc = "done" /\ nav[n].status # 0) =>
        currentPath \in {Resolve(nav[n].path) : n \in Issued}

\* The message a step has appended to the inbox of client c.
Got(c) == inbox'[c][Len(inbox'[c])]

\* C33: a raw event whose filename is not empty and passes the callback's
\* filter broadcasts a fileChange naming that file to every open client and
\* leaves the callback in its tree walk; the only step that ends the walk
\* broadcasts a structure, so the structure follows the fileChange.  An
\* event without a filename ends the callback with nothing broadcast.
C33_FileChangeThenStructure ==
    [][\A e \in EventIds :
          /\ \A s \in DOMAIN sessions, f \in WatchNames :
                WatchEvent(e, s, f) =>
                    /\ (f # NoName /\ ~ WatchIgnored(f)) =>
                          /\ cb'[e].pc = "build"
                          /\ stats'.calls = stats.calls + 1
                          /\ \A c \in clients : readyState[c] = OPEN =>
                                /\ Len(inbox'[c]) = Len(inbox[c]) + 1
                                /\ Got(c).type = "fileChange"
                                /\ Got(c).file = f
                    /\ f = NoName =>
                          /\ cb'[e].pc = "done"
                          /\ inbox' = inbox
                          /\ stats'.calls = stats.calls
          /\ (cb[e].pc # "build" /\ cb'[e].pc = "build") => cb[e].pc = "idle"
          /\ (cb[e].pc = "build" /\ cb'[e] # cb[e]) =>
                /\ cb'[e].pc = "done"
                /\ stats'.calls = stats.calls + 1
                /\ \A c \in clients : readyState[c] = OPEN =>
                      /\ Len(inbox'[c]) = Len(inbox[c]) + 1
                      /\ Got(c).type = "structure"
                      /\ Got(c).origin = "watch"]_vars

\* C33 witness: a connected client has received, after its initial
\* structure, the fileChange of a.txt and then the structure of that
\* event's walk; a second event, without a filename, added nothing.
C33_Witness ==
    /\ conn[1].pc = "done"
    /\ cb[1].pc = "done" /\ cb[2].pc = "done"
    /\ Len(inbox[1]) = 3
    /\ inbox[1][2].type = "fileChange" /\ inbox[1][2].file = PlainFile
    /\ inbox[1][3].type = "structure" /\ inbox[1][3].origin = "watch"
    /\ stats.calls = 2
    /\ fsver[ProjDir] = 2

\* C34: the callback's filter drops a raw event exactly when its filename
\* has a component the tree builder excludes: an event for an entry that
\* snapshots show is never dropped, it broadcasts its fileChange and starts
\* its walk.
C34_FilterAgreesWithBuilder ==
    [][\A e \in EventIds, s \in DOMAIN sessions, f \in WatchNames \ {NoName} :
          WatchEvent(e, s, f) =>
              IF TreeVisible(f)
              THEN cb'[e].pc = "build" /\ stats'.fileChange = stats.fileChange + 1
              ELSE cb'[e].pc = "done" /\ stats'.calls = stats.calls]_vars

IsStructure(m) == m.type = "structure"

\* C35: of two structure messages in a client's inbox that list the same
\* directory, the later one was not read from an older state of that
\* directory.
C35_SnapshotsInFreshnessOrder ==
    \A c \in ClientIds : \A i, j \in Positions(c, IsStructure) :
        (i < j /\ inbox[c][i].dir = inbox[c][j].dir) =>
            inbox[c][i].ver <= inbox[c][j].ver

\* C36: while no switch is between its request and its answer, every active
\* watcher observes projectRoot; and a structure a watcher callback
\* broadcasts is a listing of the directory its watcher observes, under that
\* directory's name, never one of a root assigned by a switch in progress.
C36_WatcherAndRootAgree ==
    /\ Quiet => \A s \in ActiveSessions : sessions[s].root = projectRoot
    /\ \A c \in ClientIds : \A i \in Positions(c, IsWatchSnapshot) :
          /\ inbox[c][i].dir = inbox[c][i].wroot
          /\ inbox[c][i].name = Base(inbox[c][i].wroot)

\* C31: when nothing is pending after navigations made one after the other,
\* each answered with a listing, the breadcrumb, the label of the select
\* button and currentPath (what selectCurrentDirectory submits) all show the
\* path of the last navigation.
C31_PageShowsLastNavigation ==
    (/\ NothingPending /\ Issued # {}
     /\ \A n \in Issued : nav[n].status = 200) =>
        LET last == Resolve(nav[Max(Issued)].path)
        IN /\ breadcrumb = last
           /\ currentPath = last
           /\ selectLabel = last

\* C32: the handler of request k is handed the path selectProject was
\* called with.  The step that ends call k sets #current-project to that
\* path and hides the modal if the response arrived and the handler had
\* answered ok; otherwise it leaves both as they are and shows an error.
C32_SelectProjectFollowsAnswer ==
    [][\A k \in SwitchIds :
          /\ (sw[k].pc = "idle" /\ sw'[k].pc # "idle") =>
                sel[k].pc = "fetch" /\ sw'[k].path = Resolve(sel[k].path)
          /\ (sel[k].pc = "fetch" /\ sel'[k].pc = "done") =>
                IF sw[k].resp = "ok" /\ sel'[k].outcome # "rejected"
                THEN /\ currentProject' = sel[k].path
                     /\ modalVisible' = FALSE
                ELSE /\ currentProject' = currentProject
                     /\ modalVisible' = modalVisible
                     /\ status' = "error"]_vars

\* C32 witness: a first selectProject(/other) was answered 500 (fs.watch
\* threw) and left "No project selected" and the modal as they were; the
\* second was answered ok, and the page shows /other with the modal hidden.
C32_Witness ==
    /\ sel[1].pc = "done" /\ sel[1].outcome = "EWATCH"
    /\ sel[2].pc = "done" /\ sel[2].outcome = "ok" /\ sel[2].path = OtherDir
    /\ currentProject = OtherDir
    /\ ~ modalVisible
    /\ status = "info"

\* The sockets created since the last one that opened (since the first
\* socket, if none has opened).
Streak == Len(socks) - Max({i \in DOMAIN socks : socks[i].opened} \cup {1})

\* C37: a close below the limit increments reconnectAttempts and schedules
\* one reconnect, a close at the limit schedules none; an open resets the
\* counter and sends one getStructure on the socket that opened; the
\* counter never exceeds 5 and no more than 5 sockets in a row are created
\* without one of them opening.
C37_ReconnectsAreLimited ==
    /\ [](reconnectAttempts <= maxReconnectAttempts /\ Streak <= maxReconnectAttempts)
    /\ [][\A i \in DOMAIN socks :
            /\ (socks[i].state # "closed" /\ socks'[i].state = "closed") =>
                  IF reconnectAttempts < maxReconnectAttempts
                  THEN /\ reconnectAttempts' = reconnectAttempts + 1
                       /\ timers' = timers + 1
                  ELSE /\ reconnectAttempts' = reconnectAttempts
                       /\ timers' = timers
            /\ (socks[i].state = "connecting" /\ socks'[i].state = "open") =>
                  /\ reconnectAttempts' = 0
                  /\ timers' = timers
                  /\ socks'[i].sent = socks[i].sent + 1]_vars

\* C37 witness: the first socket failed, the second opened (one request
\* sent) and closed, five more were created and closed without opening; the
\* counter stands at 5 and no reconnect is scheduled.
C37_Witness ==
    /\ Len(socks) = 7
    /\ \A i \in DOMAIN socks : socks[i].state = "closed"
    /\ \A i \in DOMAIN socks : socks[i].opened <=> i = 2
    /\ socks[2].sent = 1
    /\ reconnectAttempts = maxReconnectAttempts
    /\ timers = 0

\* C38: the sockets that are connecting or open and the pending reconnect
\* timers are, together, at most one.
C38_OneConnectionAttempt ==
    Cardinality({i \in DOMAIN socks : Live(i)}) + timers <= 1

\* C38 witness: after a socket that opened and closed and one that failed
\* to connect, the third socket is open, after an error was shown, and no
\* timer is pending.
C38_Witness ==
    /\ Len(socks) = 3
    /\ socks[1].opened /\ socks[1].state = "closed"
    /\ ~ socks[2].opened /\ socks[2].state = "closed"
    /\ socks[3].state = "open"
    /\ status = "error"
    /\ timers = 0

\* C39: once stopAll has returned in a launcher that stopped its two
\* children (neither had exited on its own), and the exit event of both has
\* been handled, processes is empty and the PID file does not exist.
C39_StoppedLeavesNoPidFile ==
    (/\ lpc.at = "exited"
     /\ \A n \in ChildNames : children[n] = "reaped") =>
        /\ processes = {}
        /\ ~ pidFile.exists

====
